---- MODULE Spec2Model ----
(***************************************************************************)
(* Model of jsonrpc/websocket.go: the websocketConn stream adapter (Read,  *)
(* Write) and the connection loop of Websocket.ServeHTTP with its close    *)
(* classification.                                                         *)
(*                                                                         *)
(* Bytes are natural numbers 0..255.  The bytes of the incoming transport  *)
(* messages are numbered by their offset in the whole incoming stream:     *)
(* Read only copies bytes and never inspects them, so distinct bytes make  *)
(* every loss, duplication or reordering visible.                          *)
(***************************************************************************)
EXTENDS Integers, Sequences, FiniteSets, TLC

\* ------------------------------------------------------------------ bounds
\* Number of transport messages the peer sends on the connection.
MaxMsgs == 2
\* Longest transport message, in bytes (0 is a legal websocket message).
MaxMsgLen == 2
\* Largest caller buffer len(p) handed to websocketConn.Read.
MaxBuf == 2
\* Largest number of successful HandleReader calls on the connection.
MaxCycles == 2
\* Longest response the processing core produces, in bytes.
MaxRespLen == 1
\* How far before the close-reason limit a multi-byte character may start.
MaxStraddle == 2
\* Most connections one manager serves at the same time.
MaxConns == 2

\* --------------------------------------------------------------- constants
closeReasonMaxBytes == 125
\* websocket.StatusInternalError
StatusInternalError == 1011
\* Close status codes a peer may send: normal closure, going away.
PeerCloseCodes == {1000, 1001}

\* ----------------------------------------------------------------- helpers
Take(s, n) == SubSeq(s, 1, n)
Drop(s, n) == SubSeq(s, n + 1, Len(s))
IsPrefix(s, t) == Len(s) <= Len(t) /\ Take(t, Len(s)) = s
IsSuffix(s, t) == Len(s) <= Len(t) /\ Drop(t, Len(t) - Len(s)) = s

RECURSIVE Concat(_)
Concat(ss) == IF ss = <<>> THEN <<>> ELSE Head(ss) \o Concat(Tail(ss))

\* lens[1] + ... + lens[i]
RECURSIVE SumTo(_, _)
SumTo(lens, i) == IF i = 0 THEN 0 ELSE lens[i] + SumTo(lens, i - 1)

\* n printable ASCII bytes that vary with their position.
Ascii(n) == [i \in 1..n |-> 32 + (i % 95)]

\* The messages with the given lengths, their bytes numbered by stream offset.
MsgsOf(lens) ==
    [i \in 1..Len(lens) |-> [j \in 1..lens[i] |-> SumTo(lens, i - 1) + j]]

LenSeqs == UNION {[1..n -> 0..MaxMsgLen] : n \in 0..MaxMsgs}

\* ------------------------------------------------------------------ errors
\* An error value: tag names where it came from, isClose is what
\* errors.As(err, &websocket.CloseError{}) answers, code is
\* websocket.CloseStatus(err) (-1 when it is no close error), msg is err.Error().
NoErr == [tag |-> "nil", isClose |-> FALSE, code |-> -1, msg |-> <<>>]
CloseErr(c) == [tag |-> "peerClose", isClose |-> TRUE, code |-> c, msg |-> Ascii(40)]
PlainErr(t, m) == [tag |-> t, isClose |-> FALSE, code |-> -1, msg |-> m]

\* UTF-8 encodings of U+00E9, U+20AC and U+1F600.
MultiByteChars == {<<195, 169>>, <<226, 130, 172>>, <<240, 159, 152, 128>>}

\* Error messages of the processing core: plain ASCII of lengths around the
\* limit and of length 500, and valid UTF-8 with one multi-byte character
\* starting at most MaxStraddle bytes before the limit.
CoreErrMessages ==
    {Ascii(n) : n \in {0, closeReasonMaxBytes, closeReasonMaxBytes + 1, 500}}
    \cup {Ascii(k) \o c \o Ascii(2) :
            k \in (closeReasonMaxBytes - MaxStraddle)..closeReasonMaxBytes,
            c \in MultiByteChars}

\* ------------------------------------------------------------------- state
VARIABLES
    pc,          \* position of ServeHTTP: Upgrading, HandleReader, Notify, Write, Closing, Closed
    msgs,        \* the transport messages the peer sends, in order
    fetched,     \* number of messages conn.Read has returned
    connReads,   \* number of conn.Read calls (failed ones included)
    buf,         \* wsc.buf: [isNil, data]
    lastFetched, \* the data the latest conn.Read call returned
    delivered,   \* bytes copied into the callers' buffers by Reads that returned nil error
    consumed,    \* whether the running HandleReader call has been given a byte
    responses,   \* the responses HandleReader returned, in order
    hookCalls,   \* the labels OnNewRequest was called with
    connWrites,  \* the wsc.Write calls: [typ, data, res, n]
    err,         \* the error that ended the loop (or the upgrade)
    closeCalls,  \* the conn.Close calls: [code, reason, res]
    logs,        \* the log entries: [level, status]
    connParams,  \* ws.connParams: [ReadLimit, WriteDuration (in milliseconds)]
    params,      \* wsc.params, and whether the adapter has been created
    ctxDone,     \* whether wsc.ctx (the request's context) has been canceled
    readRet,     \* what the latest wsc.Read of the running HandleReader call returned
    conns        \* the ServeHTTP calls of a manager that serves several connections

vars == <<pc, msgs, fetched, connReads, buf, lastFetched, delivered, consumed,
          responses, hookCalls, connWrites, err, closeCalls, logs,
          connParams, params, ctxDone, readRet, conns>>

\* DefaultWebsocketConnParams(): 32 MiB, 5 seconds.
DefaultWebsocketConnParams == [ReadLimit |-> 32 * 1024 * 1024, WriteDuration |-> 5 * 1000]

\* No adapter yet.
NoAdapter == [created |-> FALSE, ReadLimit |-> 0, WriteDuration |-> 0]

\* newWebsocketConn(ctx, conn, params, listener): wsc.params = params.
newWebsocketConn(p) ==
    [created |-> TRUE, ReadLimit |-> p.ReadLimit, WriteDuration |-> p.WriteDuration]

\* No Read has returned in the running HandleReader call.
NoRet == [n |-> 0, copied |-> 0, size |-> 0, err |-> "none"]

Active == pc \in {"HandleReader", "Notify", "Write"}

NilBuf == [isNil |-> TRUE, data |-> <<>>]
SomeBuf(d) == [isNil |-> FALSE, data |-> d]

\* The connections of the manager that serves several.
ConnIds == 1..MaxConns

\* A ServeHTTP call that has not started: its position, its adapter's
\* wsc.buf, the messages fetched and the bytes delivered, whether the running
\* HandleReader call has been given a byte, the hook calls and conn.Close
\* calls it made, and the error that ended it.
NewServe ==
    [pc |-> "Upgrading", buf |-> NilBuf, fetched |-> 0, delivered |-> <<>>,
     consumed |-> FALSE, hookCalls |-> 0, closeCalls |-> 0, err |-> NoErr]

Init ==
    /\ conns = [i \in ConnIds |-> NewServe]
    /\ pc = "Upgrading"
    /\ msgs \in {MsgsOf(lens) : lens \in LenSeqs}
    /\ fetched = 0
    /\ connReads = 0
    /\ buf = NilBuf
    /\ lastFetched = <<>>
    /\ delivered = <<>>
    /\ consumed = FALSE
    /\ responses = <<>>
    /\ hookCalls = <<>>
    /\ connWrites = <<>>
    /\ err = NoErr
    /\ closeCalls = <<>>
    /\ logs = <<>>
    /\ connParams = DefaultWebsocketConnParams
    /\ params = NoAdapter
    /\ ctxDone = FALSE
    /\ readRet = NoRet

\* ------------------------------------------------------------ ServeHTTP: accept
\* An upgrade failure that is logged but not returned from.
AcceptNoReturn ==
    /\ pc = "Upgrading"
    /\ \/ /\ pc' = "HandleReader"
          /\ params' = newWebsocketConn(connParams)
          /\ UNCHANGED <<err, logs>>
       \/ /\ pc' = "HandleReader"
          /\ params' = newWebsocketConn(connParams)
          /\ err' = PlainErr("upgrade", Ascii(30))
          /\ logs' = Append(logs, [level |-> "error", status |-> -1])
    /\ UNCHANGED <<msgs, fetched, connReads, buf, lastFetched, delivered, consumed,
                   responses, hookCalls, connWrites, closeCalls,
                   connParams, ctxDone, readRet,
                   conns>>

\* websocket.Accept, then newWebsocketConn: buf starts nil.
Accept ==
    /\ pc = "Upgrading"
    /\ \/ /\ pc' = "HandleReader"
          /\ params' = newWebsocketConn(connParams)
          /\ UNCHANGED <<err, logs>>
       \/ /\ pc' = "Closed"
          /\ err' = PlainErr("upgrade", Ascii(30))
          /\ logs' = Append(logs, [level |-> "error", status |-> -1])
          /\ UNCHANGED params
    /\ UNCHANGED <<msgs, fetched, connReads, buf, lastFetched, delivered, consumed,
                   responses, hookCalls, connWrites, closeCalls,
                   connParams, ctxDone, readRet,
                   conns>>

\* ---------------------------------------------------------- websocketConn.Read
\* wsc.buf == nil
NeedsFetchEarly(b) == b.isNil \/ Len(b.data) <= 1
NeedsFetch(b) == b.isNil

\* The copy into p (len(p) = size) and the new wsc.buf.
CopyOutDropRest(b, size) ==
    IF Len(b.data) > size
    THEN [n |-> size, out |-> Take(b.data, size), buf |-> NilBuf]
    ELSE [n |-> Len(b.data), out |-> b.data, buf |-> NilBuf]
CopyOut(b, size) ==
    IF Len(b.data) > size
    THEN [n |-> size, out |-> Take(b.data, size), buf |-> SomeBuf(Drop(b.data, size))]
    ELSE [n |-> Len(b.data), out |-> b.data, buf |-> NilBuf]

\* What a failing conn.Read hands back beside the error: nil, or the bytes of
\* the message in transit that io.ReadAll had read when the error occurred.
PartialData ==
    {NilBuf} \cup
    {SomeBuf(Take(msgs[fetched + 1], k)) :
        k \in IF fetched < Len(msgs) THEN 0..Len(msgs[fetched + 1]) ELSE {}}

ReadErrors == {CloseErr(c) : c \in PeerCloseCodes} \cup {PlainErr("readFail", Ascii(35))}

\* The error of a conn.Read or conn.Write whose context is done.
CtxErr == PlainErr("ctxCanceled", Ascii(38))

\* Whether the context handed to conn.Read, wsc.ctx (line 128), is done.
ReadCtxDone == ctxDone

\* The count Read returns beside the error of a failed fetch (line 130).
ReadFailCount(b) == Len(b.data)

\* A Read that does not fetch, or whose fetch returns the next message.
ReadOk(size) ==
    /\ pc = "HandleReader"
    /\ IF NeedsFetch(buf)
       THEN /\ fetched < Len(msgs)
            /\ ~ReadCtxDone
            /\ LET r == CopyOut(SomeBuf(msgs[fetched + 1]), size) IN
                 /\ buf' = r.buf
                 /\ delivered' = delivered \o r.out
                 /\ consumed' = (consumed \/ r.n > 0)
                 /\ readRet' = [n |-> r.n, copied |-> Len(r.out), size |-> size, err |-> "nil"]
            /\ fetched' = fetched + 1
            /\ connReads' = connReads + 1
            /\ lastFetched' = msgs[fetched + 1]
       ELSE /\ LET r == CopyOut(buf, size) IN
                 /\ buf' = r.buf
                 /\ delivered' = delivered \o r.out
                 /\ consumed' = (consumed \/ r.n > 0)
                 /\ readRet' = [n |-> r.n, copied |-> Len(r.out), size |-> size, err |-> "nil"]
            /\ UNCHANGED <<fetched, connReads, lastFetched>>
    /\ UNCHANGED <<pc, msgs, responses, hookCalls, connWrites, err, closeCalls, logs,
                   params, connParams, ctxDone,
                   conns>>

\* What HandleReader returns when the reader it was given fails: the error
\* of the Read, unchanged.
HandleReaderResult(readErr) == readErr

\* A Read whose fetch fails: it returns the transport's error, HandleReader
\* returns it and the loop breaks.
ReadFail ==
    /\ pc = "HandleReader"
    /\ NeedsFetch(buf)
    /\ \E e \in ReadErrors \cup (IF ReadCtxDone THEN {CtxErr} ELSE {}),
          part \in PartialData, size \in 0..MaxBuf :
         /\ (e.isClose => part = NilBuf)
         /\ buf' = part
         /\ lastFetched' = part.data
         /\ err' = HandleReaderResult(e)
         /\ readRet' = [n |-> ReadFailCount(part), copied |-> 0, size |-> size, err |-> e.tag]
    /\ connReads' = connReads + 1
    /\ pc' = "Closing"
    /\ UNCHANGED <<msgs, fetched, delivered, consumed, responses, hookCalls,
                   connWrites, closeCalls, logs,
                   params, connParams, ctxDone,
                   conns>>

\* ------------------------------------------------------- Server.HandleReader
\* The response of the given cycle with the given length; its bytes name the cycle.
Resp(cycle, len) == [j \in 1..len |-> 200 + cycle]

\* The core answers only after it has read bytes of a request.
CoreMayRespond == consumed

\* HandleReader returns a response and no error (line 62, err == nil).
HandleReaderOk ==
    /\ pc = "HandleReader"
    /\ CoreMayRespond
    /\ Len(responses) < MaxCycles
    /\ \E len \in 0..MaxRespLen :
         responses' = Append(responses, Resp(Len(responses) + 1, len))
    /\ pc' = "Notify"
    /\ UNCHANGED <<msgs, fetched, connReads, buf, lastFetched, delivered, consumed,
                   hookCalls, connWrites, err, closeCalls, logs,
                   params, connParams, ctxDone,
                   conns>>
    /\ readRet' = NoRet

\* HandleReader returns an error of its own (a parse or processing failure).
HandleReaderErr ==
    /\ pc = "HandleReader"
    /\ \E m \in CoreErrMessages : err' = PlainErr("core", m)
    /\ pc' = "Closing"
    /\ UNCHANGED <<msgs, fetched, connReads, buf, lastFetched, delivered, consumed,
                   responses, hookCalls, connWrites, closeCalls, logs,
                   params, connParams, ctxDone,
                   conns>>
    /\ readRet' = NoRet

\* ------------------------------------------------------- ServeHTTP: the loop
\* wsc.listener.OnNewRequest("any")
OnNewRequestSkipped ==
    /\ pc = "Notify"
    /\ pc' = "Write"
    /\ UNCHANGED <<msgs, fetched, connReads, buf, lastFetched, delivered, consumed,
                   responses, hookCalls, connWrites, err, closeCalls, logs,
                   params, connParams, ctxDone, readRet,
                   conns>>

OnNewRequest ==
    /\ pc = "Notify"
    /\ hookCalls' = Append(hookCalls, "any")
    /\ pc' = "Write"
    /\ UNCHANGED <<msgs, fetched, connReads, buf, lastFetched, delivered, consumed,
                   responses, connWrites, err, closeCalls, logs,
                   params, connParams, ctxDone, readRet,
                   conns>>

\* --------------------------------------------------------- websocketConn.Write
\* The errors conn.Write may return: the write deadline passed, the write
\* failed, or the peer has closed the connection.
WriteErrors ==
    {PlainErr("deadline", Ascii(45)), PlainErr("writeFail", Ascii(33))}
    \cup {CloseErr(c) : c \in PeerCloseCodes}

\* Whether writeCtx, the child of wsc.ctx made at line 149, is done because
\* wsc.ctx is.
WriteCtxDetached == FALSE
WriteCtxDone == ctxDone

\* context.WithTimeout with a duration that is not positive is done at once.
WriteDeadlinePassed == params.WriteDuration <= 0

\* What wsc.Write returns beside the error (lines 153-156).
WriteReturnAlwaysLen(p, res) == Len(p)
WriteReturn(p, res) == IF res = "ok" THEN Len(p) ELSE 0

\* One wsc.Write call: the conn.Write it makes (websocket.MessageText, p),
\* how conn.Write ended, and the count wsc.Write returned.
WriteCall(p, res) == [typ |-> "text", data |-> p, res |-> res, n |-> WriteReturn(p, res)]

\* A loop that tries the write again when it failed.
WriteRetry ==
    /\ pc = "Write"
    /\ LET p == responses[Len(responses)] IN
         \/ /\ ~WriteCtxDone
            /\ ~WriteDeadlinePassed
            /\ connWrites' = Append(connWrites, WriteCall(p, "ok"))
            /\ pc' = "HandleReader"
            /\ consumed' = FALSE
            /\ err' = err
         \/ \E e \in WriteErrors \cup (IF WriteCtxDone THEN {CtxErr} ELSE {}) :
              /\ connWrites' = Append(connWrites, WriteCall(p, e.tag))
              /\ pc' = IF Len(connWrites) < 2 * MaxCycles THEN "Write" ELSE "Closing"
              /\ consumed' = consumed
              /\ err' = e
    /\ UNCHANGED <<msgs, fetched, connReads, buf, lastFetched, delivered,
                   responses, hookCalls, closeCalls, logs,
                   params, connParams, ctxDone, readRet,
                   conns>>

\* A loop that reads the next request without waiting for the write.
WriteSkipped ==
    /\ pc = "Write"
    /\ pc' = "HandleReader"
    /\ consumed' = FALSE
    /\ UNCHANGED <<msgs, fetched, connReads, buf, lastFetched, delivered,
                   responses, hookCalls, connWrites, err, closeCalls, logs,
                   params, connParams, ctxDone, readRet,
                   conns>>

\* A Write that starts every cycle with an empty pending buffer.
WriteClearsBuf ==
    /\ pc = "Write"
    /\ LET p == responses[Len(responses)] IN
         \/ /\ ~WriteCtxDone
            /\ ~WriteDeadlinePassed
            /\ connWrites' = Append(connWrites, WriteCall(p, "ok"))
            /\ pc' = "HandleReader"
            /\ consumed' = FALSE
            /\ err' = err
         \/ \E e \in WriteErrors \cup (IF WriteCtxDone THEN {CtxErr} ELSE {}) :
              /\ connWrites' = Append(connWrites, WriteCall(p, e.tag))
              /\ pc' = "Closing"
              /\ consumed' = consumed
              /\ err' = e
    /\ buf' = NilBuf
    /\ UNCHANGED <<msgs, fetched, connReads, lastFetched, delivered,
                   responses, hookCalls, closeCalls, logs,
                   params, connParams, ctxDone, readRet,
                   conns>>

\* wsc.Write(resp) and the loop's test of its error (lines 67-69).
Write ==
    /\ pc = "Write"
    /\ LET p == responses[Len(responses)] IN
         \/ /\ ~WriteCtxDone
            /\ ~WriteDeadlinePassed
            /\ connWrites' = Append(connWrites, WriteCall(p, "ok"))
            /\ pc' = "HandleReader"
            /\ consumed' = FALSE
            /\ err' = err
         \/ \E e \in WriteErrors \cup (IF WriteCtxDone THEN {CtxErr} ELSE {}) :
              /\ connWrites' = Append(connWrites, WriteCall(p, e.tag))
              /\ pc' = "Closing"
              /\ consumed' = consumed
              /\ err' = e
    /\ UNCHANGED <<msgs, fetched, connReads, buf, lastFetched, delivered,
                   responses, hookCalls, closeCalls, logs,
                   params, connParams, ctxDone, readRet,
                   conns>>

\* ------------------------------------------------- ServeHTTP: classification
\* errString after lines 79-82.
TruncateReasonNone(errString) == errString
TruncateReason(errString) ==
    IF Len(errString) > closeReasonMaxBytes
    THEN Take(errString, closeReasonMaxBytes)
    ELSE errString

\* errors.As(err, &errClose), line 73.
IsCloseErrorNormalOnly(e) == e.isClose /\ e.code = 1000
IsCloseErrorNever(e) == FALSE
IsCloseError(e) == e.isClose

\* What conn.Close may answer: nil, "already wrote close", another failure.
CloseResults == {"ok", "alreadyWroteClose", "fail"}

\* strings.Contains(err.Error(), "already wrote close"), line 87.
AlreadyWroteCloseNever(res) == FALSE
AlreadyWroteClose(res) == res = "alreadyWroteClose"

\* Lines 72-91: the peer's close is logged and nothing is sent; any other
\* error is logged as a warning and the connection is closed.
Teardown ==
    /\ pc = "Closing"
    /\ IF IsCloseError(err)
       THEN /\ logs' = Append(logs, [level |-> "info", status |-> err.code])
            /\ UNCHANGED closeCalls
       ELSE \E res \in CloseResults :
              /\ closeCalls' = Append(closeCalls,
                     [code |-> StatusInternalError,
                      reason |-> TruncateReason(err.msg), res |-> res])
              /\ logs' = Append(logs, [level |-> "warn", status |-> -1])
                          \o (IF res # "ok" /\ ~AlreadyWroteClose(res)
                              THEN <<[level |-> "error", status |-> -1]>>
                              ELSE <<>>)
    /\ pc' = "Closed"
    /\ UNCHANGED <<msgs, fetched, connReads, buf, lastFetched, delivered, consumed,
                   responses, hookCalls, connWrites, err,
                   params, connParams, ctxDone,
                   conns>>
    /\ readRet' = NoRet

\* ------------------------------------------------- the request's context
\* r.Context() is canceled while the connection is served.
Cancel ==
    /\ Active
    /\ ~ctxDone
    /\ ctxDone' = TRUE
    /\ UNCHANGED <<pc, msgs, fetched, connReads, buf, lastFetched, delivered, consumed,
                   responses, hookCalls, connWrites, err, closeCalls, logs,
                   connParams, params, readRet,
                   conns>>

\* ------------------------------------------------------------ WithConnParams
\* The parameter values a caller may pass: the defaults, zero (an unset
\* field) and a negative value, for each field.
ParamChoices ==
    [ReadLimit : {-1, 0, DefaultWebsocketConnParams.ReadLimit},
     WriteDuration : {-1, 0, DefaultWebsocketConnParams.WriteDuration}]

\* ws.WithConnParams(p), before the manager serves the connection.
WithConnParams(p) ==
    /\ pc = "Upgrading"
    /\ connParams' = p
    /\ UNCHANGED <<pc, msgs, fetched, connReads, buf, lastFetched, delivered, consumed,
                   responses, hookCalls, connWrites, err, closeCalls, logs,
                   params, ctxDone, readRet,
                   conns>>

\* ------------------------------------------------------------ specification
Next ==
    \/ Accept
    \/ \E size \in 0..MaxBuf : ReadOk(size)
    \/ ReadFail
    \/ HandleReaderOk
    \/ HandleReaderErr
    \/ OnNewRequest
    \/ Write
    \/ Teardown

Spec == Init /\ [][Next]_vars

\* The connection with a manager that was configured with WithConnParams;
\* the peer sends at most one message.
InitConfig == Init /\ Len(msgs) <= 1

NextConfig ==
    \/ \E p \in ParamChoices : WithConnParams(p)
    \/ Next

SpecConfig == InitConfig /\ [][NextConfig]_vars

\* The connection whose request context may be canceled; the peer sends at
\* most one message.  A step of the
\* handler's own (the hook call, the teardown) is taken; a write returns,
\* by its deadline at the latest; and once the context is canceled no Read
\* blocks, so the processing core, which terminates, goes on until
\* HandleReader returns.  Without the cancellation a fetch may wait for the
\* peer for ever.
CoreStep ==
    \/ \E size \in 0..MaxBuf : ReadOk(size)
    \/ ReadFail
    \/ HandleReaderOk
    \/ HandleReaderErr

NextCancel ==
    \/ Cancel
    \/ Next

FairCancel ==
    /\ WF_vars(OnNewRequest)
    /\ WF_vars(Write)
    /\ WF_vars(Teardown)
    /\ WF_vars(ctxDone /\ CoreStep)

SpecCancel == InitConfig /\ [][NextCancel]_vars /\ FairCancel

\* ------------------------------------------------- several connections
\* net/http runs one ServeHTTP call per connection, each in a goroutine of
\* its own, on the same manager.  A step below is a step of the call that
\* serves connection i; the steps of different calls interleave freely.

soloVars == <<pc, msgs, fetched, connReads, buf, lastFetched, delivered, consumed,
              responses, hookCalls, connWrites, err, closeCalls, logs,
              connParams, params, ctxDone, readRet>>

\* What the peer of connection i sends: one message of two bytes that name
\* the connection.
InboxOf(i) == <<<<10 * i + 1, 10 * i + 2>>>>

\* One adapter that every ServeHTTP call uses.
wscShared(i) == 1

\* The adapter the call serving connection i uses: wsc, a local variable
\* that holds the websocketConn made at line 57 for this call.
wscOf(i) == i

\* websocket.Accept, then newWebsocketConn: buf starts nil.
ServeAccept(i) ==
    /\ conns[i].pc = "Upgrading"
    /\ \/ conns' = [conns EXCEPT ![wscOf(i)].buf = NilBuf,
                                 ![i].pc = "HandleReader"]
       \/ conns' = [conns EXCEPT ![i].pc = "Closed",
                                 ![i].err = PlainErr("upgrade", Ascii(30))]
    /\ UNCHANGED soloVars

\* wsc.Read(p), len(p) = size, that does not fetch or whose fetch returns
\* the next message of connection i.
ServeRead(i, size) ==
    /\ conns[i].pc = "HandleReader"
    /\ LET b == conns[wscOf(i)].buf IN
         IF NeedsFetch(b)
         THEN /\ conns[i].fetched < Len(InboxOf(i))
              /\ LET r == CopyOut(SomeBuf(InboxOf(i)[conns[i].fetched + 1]), size) IN
                   conns' = [conns EXCEPT ![wscOf(i)].buf = r.buf,
                                          ![i].fetched = @ + 1,
                                          ![i].delivered = @ \o r.out,
                                          ![i].consumed = (@ \/ r.n > 0)]
         ELSE LET r == CopyOut(b, size) IN
                   conns' = [conns EXCEPT ![wscOf(i)].buf = r.buf,
                                          ![i].delivered = @ \o r.out,
                                          ![i].consumed = (@ \/ r.n > 0)]
    /\ UNCHANGED soloVars

\* wsc.Read whose fetch fails before a byte of a message has arrived:
\* conn.Read returns nil data and the error, HandleReader returns the error.
ServeReadFail(i) ==
    /\ conns[i].pc = "HandleReader"
    /\ NeedsFetch(conns[wscOf(i)].buf)
    /\ \E e \in ReadErrors :
         conns' = [conns EXCEPT ![wscOf(i)].buf = NilBuf,
                                ![i].err = HandleReaderResult(e),
                                ![i].pc = "Closing"]
    /\ UNCHANGED soloVars

\* HandleReader returns a response and no error (line 62, err == nil); the
\* core answers only after it has read bytes of a request.
ServeHandled(i) ==
    /\ conns[i].pc = "HandleReader"
    /\ conns[i].consumed
    /\ conns' = [conns EXCEPT ![i].pc = "Notify"]
    /\ UNCHANGED soloVars

\* HandleReader returns an error of its own.
ServeHandleErr(i) ==
    /\ conns[i].pc = "HandleReader"
    /\ conns' = [conns EXCEPT ![i].pc = "Closing",
                              ![i].err = PlainErr("core", Ascii(0))]
    /\ UNCHANGED soloVars

\* wsc.listener.OnNewRequest("any")
ServeNotify(i) ==
    /\ conns[i].pc = "Notify"
    /\ conns' = [conns EXCEPT ![i].pc = "Write", ![i].hookCalls = @ + 1]
    /\ UNCHANGED soloVars

\* wsc.Write(resp) and the loop's test of its error (lines 67-69).
ServeWrite(i) ==
    /\ conns[i].pc = "Write"
    /\ \/ conns' = [conns EXCEPT ![i].pc = "HandleReader", ![i].consumed = FALSE]
       \/ \E e \in WriteErrors :
            conns' = [conns EXCEPT ![i].pc = "Closing", ![i].err = e]
    /\ UNCHANGED soloVars

\* Lines 72-91: the peer's close is logged and nothing is sent; any other
\* error is logged and conn.Close is called.
ServeTeardown(i) ==
    /\ conns[i].pc = "Closing"
    /\ IF IsCloseError(conns[i].err)
       THEN conns' = [conns EXCEPT ![i].pc = "Closed"]
       ELSE conns' = [conns EXCEPT ![i].pc = "Closed", ![i].closeCalls = @ + 1]
    /\ UNCHANGED soloVars

InitMulti == Init /\ msgs = <<>>

NextMulti ==
    \E i \in ConnIds :
        \/ ServeAccept(i)
        \/ \E size \in 0..MaxBuf : ServeRead(i, size)
        \/ ServeReadFail(i)
        \/ ServeHandled(i)
        \/ ServeHandleErr(i)
        \/ ServeNotify(i)
        \/ ServeWrite(i)
        \/ ServeTeardown(i)

SpecMulti == InitMulti /\ [][NextMulti]_vars

\* ------------------------------------------------------------ derived values
\* UTF-8 (RFC 3629: no overlong forms, no surrogates, nothing above U+10FFFF).
IsCont(b) == b >= 128 /\ b <= 191

\* Length of the character a lead byte announces; 0 for a byte that cannot lead.
CharLen(b) ==
    IF b < 128 THEN 1
    ELSE IF b >= 194 /\ b <= 223 THEN 2
    ELSE IF b >= 224 /\ b <= 239 THEN 3
    ELSE IF b >= 240 /\ b <= 244 THEN 4
    ELSE 0

\* Every lead byte is followed by its continuation bytes, and every
\* continuation byte belongs to the character of the lead byte before it.
ValidUTF8(s) ==
    \A i \in 1..Len(s) :
        IF IsCont(s[i])
        THEN \E k \in 1..3 :
                /\ i - k >= 1
                /\ CharLen(s[i - k]) > k
                /\ \A j \in 1..(k - 1) : IsCont(s[i - j])
        ELSE /\ CharLen(s[i]) >= 1
             /\ i + CharLen(s[i]) - 1 <= Len(s)
             /\ \A j \in 1..(CharLen(s[i]) - 1) : IsCont(s[i + j])
             /\ (s[i] = 224 => s[i + 1] >= 160)
             /\ (s[i] = 237 => s[i + 1] <= 159)
             /\ (s[i] = 240 => s[i + 1] >= 144)
             /\ (s[i] = 244 => s[i + 1] <= 143)

\* The whole incoming byte stream.
Stream == Concat(msgs)

\* The payloads of the conn.Write calls that returned nil, in order.
Wire == [i \in 1..Len(SelectSeq(connWrites, LAMBDA w : w.res = "ok")) |->
            SelectSeq(connWrites, LAMBDA w : w.res = "ok")[i].data]

\* Index of the last non-empty message (0 when there is none).
LastNonEmpty == 
    IF \E i \in 1..Len(msgs) : msgs[i] # <<>>
    THEN CHOOSE i \in 1..Len(msgs) :
            msgs[i] # <<>> /\ \A j \in (i + 1)..Len(msgs) : msgs[j] = <<>>
    ELSE 0

\* ---------------------------------------------------------------------- C1
\* C1 as stated: the bytes delivered by successful Reads are the messages'
\* bytes in arrival order, and once all bytes have been delivered exactly N
\* messages have been fetched.
C1_AllDeliveredAfterExactlyNFetches ==
    /\ IsPrefix(delivered, Stream)
    /\ (delivered = Stream /\ delivered # <<>> => fetched = Len(msgs))

\* C1 as amended: while no fetch has failed, the bytes delivered, followed
\* by the pending bytes, are the bytes of the messages fetched so far in
\* arrival order; at most N
\* messages are fetched; and once all bytes have been delivered every
\* message up to the last non-empty one has been fetched (all N when the last
\* message is not empty: an empty message at the end is fetched only by a
\* further Read).
C1_StreamReconstructed ==
    /\ IsPrefix(delivered, Stream)
    /\ fetched <= Len(msgs)
    /\ (Active => delivered \o buf.data = Concat(Take(msgs, fetched)))
    /\ (delivered = Stream => fetched >= LastNonEmpty)
    /\ (delivered = Stream /\ msgs # <<>> /\ msgs[Len(msgs)] # <<>>
            => fetched = Len(msgs))

\* Two messages of different lengths, the first longer than some caller
\* buffer could hold at once, all delivered.
C1_Witness ==
    /\ Len(msgs) = 2
    /\ Len(msgs[1]) = 2
    /\ Len(msgs[2]) = 1
    /\ delivered = Stream
    /\ fetched = 2
    /\ pc = "HandleReader"

\* ---------------------------------------------------------------------- C2
\* C2: the pending buffer is empty or a suffix of the data the latest fetch
\* returned, none of whose bytes has been delivered; a Read fetches only when
\* the pending buffer is empty on entry, and at most once.
C2_PendingBufferInv ==
    \/ buf.data = <<>>
    \/ /\ IsSuffix(buf.data, lastFetched)
       /\ \A i \in 1..Len(buf.data), j \in 1..Len(delivered) : buf.data[i] # delivered[j]

C2_FetchStep ==
    connReads' # connReads => (buf.data = <<>> /\ connReads' = connReads + 1)

\* C2: the buffer invariant in every state, the fetch rule in every step.
C2_PendingBuffer == []C2_PendingBufferInv /\ [][C2_FetchStep]_vars

\* The pending buffer holds the undelivered rest of the second message.
C2_Witness ==
    /\ fetched = 2
    /\ buf.data # <<>>
    /\ Len(buf.data) < Len(lastFetched)
    /\ lastFetched = msgs[2]
    /\ Len(msgs[1]) > 0

\* ---------------------------------------------------------------------- C3
\* C3: the loop is half-duplex: whenever HandleReader runs (and so whenever
\* the adapter reads or fetches), every response produced so far has been
\* written successfully; responses are written in the order produced, at
\* most one conn.Write per HandleReader call.
C3_WireInv ==
    /\ IsPrefix(Wire, responses)
    /\ Len(connWrites) <= Len(responses)
    /\ Len(responses) - Len(Wire) <= 1
    /\ (pc = "HandleReader" => Wire = responses)

C3_ReadStep ==
    (connReads' # connReads \/ delivered' # delivered \/ buf' # buf)
        => Wire = responses

\* C3: the write order in every state, the half-duplex rule in every step.
C3_HalfDuplex == []C3_WireInv /\ [][C3_ReadStep]_vars

\* The third request is being read after two responses have been written.
C3_Witness ==
    /\ pc = "HandleReader"
    /\ consumed
    /\ Len(responses) = 2
    /\ Len(Wire) = 2
    /\ Wire[1] # Wire[2]

\* ---------------------------------------------------------------------- C4
\* C4: the hook has been called once for each HandleReader call that
\* returned without error (the call for the newest response being the next
\* step while the loop stands between lines 65 and 66), and never for a call
\* that returned an error.
C4_HookPerHandledRequest ==
    Len(hookCalls) + (IF pc = "Notify" THEN 1 ELSE 0) = Len(responses)

\* One cycle produced a response, the next HandleReader call failed.
C4_Witness ==
    /\ pc = "Closed"
    /\ err.tag = "core"
    /\ Len(responses) = 1
    /\ Len(hookCalls) = 1
    /\ Len(Wire) = 1

\* ---------------------------------------------------------------------- C5
\* C5 as stated: the hook is not called for a cycle whose read/parse step or
\* whose write fails: once the loop has ended, the hook calls are as many as
\* the responses successfully written.
C5_NoHookOnFailedCycle ==
    pc \in {"Closing", "Closed"} => Len(hookCalls) = Len(Wire)

\* The connection was upgraded and its loop has ended and been torn down.
TornDown == pc = "Closed" /\ err.tag # "upgrade"

GracefulPath ==
    /\ closeCalls = <<>>
    /\ logs = <<[level |-> "info", status |-> err.code]>>

InternalErrorPath ==
    /\ Len(closeCalls) = 1
    /\ closeCalls[1].code = StatusInternalError
    /\ Len(logs) >= 1
    /\ logs[1].level = "warn"
    /\ \A i \in 1..Len(logs) : logs[i].level # "info"

\* ---------------------------------------------------------------------- C6
\* C6: when the loop ended with the peer's close of status 1000, the only
\* log entry is the informational one carrying that status and conn.Close is
\* never called.
C6_NormalCloseIsGraceful ==
    (err.isClose /\ err.code = 1000)
        => /\ closeCalls = <<>>
           /\ \A i \in 1..Len(logs) : logs[i] = [level |-> "info", status |-> 1000]
           /\ (pc = "Closed" => logs = <<[level |-> "info", status |-> 1000]>>)

\* The peer closed with status 1000 after one full cycle; the handler returned.
C6_Witness ==
    /\ pc = "Closed"
    /\ err.isClose
    /\ err.code = 1000
    /\ Len(Wire) = 1
    /\ logs # <<>>

\* ---------------------------------------------------------------------- C7
\* C7 as stated: every loop-ending error other than the peer's close with
\* the normal status 1000 takes the internal-error path, and only that close
\* takes the graceful path.
C7_OnlyNormalCloseIsGraceful ==
    TornDown =>
        IF err.isClose /\ err.code = 1000 THEN GracefulPath ELSE InternalErrorPath

\* C7 as amended: every loop-ending error that is not a close error of the
\* peer takes the internal-error path (warning, then conn.Close with the
\* internal-error status); the graceful path is taken for exactly the peer's
\* close errors, whatever their status code.
C7_CloseErrorsAreGraceful ==
    TornDown =>
        IF err.isClose THEN GracefulPath ELSE InternalErrorPath

\* A failed read that is no close error has been torn down on the
\* internal-error path.
C7_Witness ==
    /\ TornDown
    /\ err.tag = "readFail"
    /\ InternalErrorPath

\* ---------------------------------------------------------------------- C8
\* C8: a processing error with message M closes the connection with the
\* internal-error status and the reason M when M has at most 125 bytes, the
\* first 125 bytes of M when it has more; a message of 500 bytes gives a
\* reason of exactly 125 bytes.
C8_ReasonIsTruncatedMessage ==
    (TornDown /\ err.tag = "core") =>
        /\ Len(closeCalls) = 1
        /\ closeCalls[1].code = StatusInternalError
        /\ Len(closeCalls[1].reason) <= 125
        /\ (Len(err.msg) <= 125 => closeCalls[1].reason = err.msg)
        /\ (Len(err.msg) > 125 =>
                /\ Len(closeCalls[1].reason) = 125
                /\ \A i \in 1..125 : closeCalls[1].reason[i] = err.msg[i])

\* A processing error of 500 bytes has been closed with a reason of 125 bytes.
C8_Witness ==
    /\ TornDown
    /\ err.tag = "core"
    /\ Len(err.msg) = 500
    /\ Len(closeCalls) = 1
    /\ Len(closeCalls[1].reason) = 125

\* ---------------------------------------------------------------------- C9
\* C9 as stated: for an error message that is valid UTF-8 the close reason
\* has at most 125 bytes and is valid UTF-8.
C9_ReasonIsValidUTF8 ==
    (TornDown /\ ~err.isClose /\ ValidUTF8(err.msg)) =>
        \A i \in 1..Len(closeCalls) :
            /\ Len(closeCalls[i].reason) <= 125
            /\ ValidUTF8(closeCalls[i].reason)

\* ---------------------------------------------------------------------- C10
\* C10: after a conn.Write that ran into the write deadline the loop has
\* ended, that call is the last conn.Write of the connection (one call per
\* response, none after it), and the teardown calls conn.Close with the
\* internal-error status exactly once.
C10_TimeoutClosesOnce ==
    (\E i \in 1..Len(connWrites) : connWrites[i].res = "deadline") =>
        /\ err.tag = "deadline"
        /\ pc \in {"Closing", "Closed"}
        /\ connWrites[Len(connWrites)].res = "deadline"
        /\ \A i \in 1..(Len(connWrites) - 1) : connWrites[i].res = "ok"
        /\ Len(connWrites) = Len(responses)
        /\ (pc = "Closing" => closeCalls = <<>>)
        /\ (pc = "Closed" =>
                /\ Len(closeCalls) = 1
                /\ closeCalls[1].code = StatusInternalError)

\* The second response's write timed out and the connection was torn down.
C10_Witness ==
    /\ pc = "Closed"
    /\ err.tag = "deadline"
    /\ Len(connWrites) = 2
    /\ Len(closeCalls) = 1

\* ---------------------------------------------------------------------- C11
\* C11: each wsc.Write call makes one conn.Write of type text whose content
\* is the response it was given, whole, and returns the length of the
\* response when conn.Write succeeded and 0 when it failed.
C11_WriteInv ==
    /\ Len(connWrites) <= Len(responses)
    /\ \A i \in 1..Len(connWrites) :
         /\ connWrites[i].typ = "text"
         /\ connWrites[i].data = responses[i]
         /\ connWrites[i].n = (IF connWrites[i].res = "ok" THEN Len(responses[i]) ELSE 0)

C11_WriteStep ==
    /\ (connWrites' # connWrites => pc = "Write")
    /\ (pc = "Write" /\ pc' # "Write" =>
            /\ Len(connWrites') = Len(connWrites) + 1
            /\ Take(connWrites', Len(connWrites)) = connWrites)

\* C11: the record of the calls in every state, one call per step of Write.
C11_WriteIsOneTextMessage == []C11_WriteInv /\ [][C11_WriteStep]_vars

\* A one-byte response was written, the next one-byte response failed.
C11_Witness ==
    /\ Len(connWrites) = 2
    /\ connWrites[1].res = "ok"
    /\ connWrites[1].n = 1
    /\ connWrites[2].res = "writeFail"
    /\ Len(connWrites[2].data) = 1
    /\ connWrites[2].n = 0

\* ---------------------------------------------------------------------- C12
Rank(p) ==
    CASE p = "Upgrading" -> 0
      [] p \in {"HandleReader", "Notify", "Write"} -> 1
      [] p = "Closing" -> 2
      [] p = "Closed" -> 3

C12_Inv == (err # NoErr) <=> (pc \in {"Closing", "Closed"})

C12_Step ==
    /\ Rank(pc') >= Rank(pc)
    /\ (err # NoErr => err' = err)
    /\ (pc \in {"Closing", "Closed"} =>
            UNCHANGED <<fetched, connReads, buf, delivered, responses, hookCalls,
                        connWrites>>)
    /\ (pc = "Closed" => UNCHANGED vars)

\* C12: the lifecycle only advances; once HandleReader or Write has returned
\* an error the loop has ended and no HandleReader, Read, Write or hook call
\* follows; in Closed nothing happens any more.
C12_LifecycleOnlyAdvances == []C12_Inv /\ [][C12_Step]_vars

\* A failed write of the second response, torn down.
C12_Witness ==
    /\ pc = "Closed"
    /\ err.tag = "writeFail"
    /\ Len(responses) = 2
    /\ Len(closeCalls) = 1

\* ---------------------------------------------------------------------- C13
\* C13: after a failed upgrade the handler has returned: no read, no
\* HandleReader result, no hook call, no write, no conn.Close, and exactly
\* one log entry, at error level.
C13_FailedUpgradeDoesNothing ==
    err.tag = "upgrade" =>
        /\ pc = "Closed"
        /\ connReads = 0
        /\ buf = NilBuf
        /\ delivered = <<>>
        /\ responses = <<>>
        /\ hookCalls = <<>>
        /\ connWrites = <<>>
        /\ closeCalls = <<>>
        /\ logs = <<[level |-> "error", status |-> -1]>>

\* The upgrade failed although the peer had messages to send.
C13_Witness ==
    /\ err.tag = "upgrade"
    /\ pc = "Closed"
    /\ Len(msgs) = 2
    /\ Len(logs) = 1

\* ---------------------------------------------------------------------- C14
ErrorLogs == SelectSeq(logs, LAMBDA l : l.level = "error")

\* C14: on the internal-error path an error-level entry is logged exactly
\* when conn.Close failed for another reason than "already wrote close": one
\* entry then, none when it succeeded or had already written the close.
C14_CloseFailureLogging ==
    (TornDown /\ ~err.isClose) =>
        /\ Len(closeCalls) = 1
        /\ Len(ErrorLogs) = (IF closeCalls[1].res = "fail" THEN 1 ELSE 0)

\* conn.Close answered "already wrote close" after a write ran into its deadline.
C14_Witness ==
    /\ TornDown
    /\ err.tag = "deadline"
    /\ Len(closeCalls) = 1
    /\ closeCalls[1].res = "alreadyWroteClose"
    /\ ErrorLogs = <<>>

\* ---------------------------------------------------------------------- C15
\* C15 as stated: the parameters of the manager, and those an accepted
\* connection works with, have a strictly positive read limit and a strictly
\* positive write deadline, whatever WithConnParams was called with.
C15_ParamsStrictlyPositive ==
    params.created => (params.ReadLimit > 0 /\ params.WriteDuration > 0)

\* ---------------------------------------------------------------------- C16
ReadReturned == pc = "HandleReader" /\ readRet' # readRet /\ readRet'.err # "none"
WriteReturned == pc = "Write" /\ Len(connWrites') > Len(connWrites)

\* C16 as stated: once the request's context is canceled every Read and
\* every Write of the connection returns an error.
C16_EveryCallFailsAfterCancel ==
    [][ctxDone =>
          /\ (ReadReturned => readRet'.err # "nil")
          /\ (WriteReturned => connWrites'[Len(connWrites')].res # "ok")]_vars

\* C16 as amended: once the request's context is canceled every Read that
\* has to fetch from the transport and every Write returns an error; a Read
\* that is served from the pending bytes still succeeds, without fetching;
\* and the connection reaches Closed.
C16_CancelEndsConnection ==
    /\ [][ctxDone =>
            /\ (ReadReturned /\ NeedsFetch(buf) => readRet'.err # "nil")
            /\ (ReadReturned /\ ~NeedsFetch(buf) =>
                    readRet'.err = "nil" /\ connReads' = connReads)
            /\ (WriteReturned => connWrites'[Len(connWrites')].res # "ok")]_vars
    /\ ((ctxDone /\ Active) ~> (pc = "Closed"))

\* After the cancellation a response was still produced; its write failed
\* with the context's error and the connection was torn down.
C16_Witness ==
    /\ ctxDone
    /\ pc = "Closed"
    /\ err.tag = "ctxCanceled"
    /\ Len(connWrites) = 1
    /\ connWrites[1].res = "ctxCanceled"
    /\ Len(closeCalls) = 1

\* ---------------------------------------------------------------------- C18
\* C18 as stated: the count a Read returns is the number of bytes it copied
\* into p, between 0 and len(p), also when the fetch failed.
C18_ReadCountIsBytesCopied ==
    readRet.err # "none" =>
        /\ readRet.n = readRet.copied
        /\ 0 <= readRet.n
        /\ readRet.n <= readRet.size

\* ---------------------------------------------------------------------- C19
\* While the loop is running, the bytes delivered and the bytes pending are
\* together the bytes of the messages fetched: none dropped, none fetched again.
C19_Inv == Active => delivered \o buf.data = Concat(Take(msgs, fetched))

C19_Step ==
    /\ (pc \in {"Notify", "Write"} =>
            UNCHANGED <<buf, fetched, connReads, lastFetched, delivered>>)
    /\ (pc = "HandleReader" /\ pc' = "Notify" =>
            UNCHANGED <<buf, fetched, connReads, lastFetched, delivered>>)
    /\ (ReadReturned => connWrites' = connWrites)
    /\ (ReadReturned /\ buf.data # <<>> =>
            /\ connReads' = connReads
            /\ delivered' = delivered \o Take(buf.data, readRet'.n)
            /\ buf'.data = Drop(buf.data, readRet'.n))

\* C19: Write, the hook call and the return of HandleReader leave the
\* pending buffer (and the fetch count) unchanged; a Read that finds pending
\* bytes delivers the first of them and fetches nothing; a Read never writes
\* to the transport.
C19_PendingBytesSurviveTheCycle == []C19_Inv /\ [][C19_Step]_vars

\* The second HandleReader call was given a byte the first had left pending.
C19_Witness ==
    /\ pc = "HandleReader"
    /\ Len(Wire) = 1
    /\ Len(msgs) = 2
    /\ fetched = 1
    /\ delivered = msgs[1]
    /\ consumed
    /\ buf.isNil

\* ---------------------------------------------------------------------- C17
\* The bytes a running connection was given and the bytes pending in its
\* adapter are together the bytes of the messages its own peer sent and it
\* fetched; at any time the bytes it was given are a prefix of its own
\* peer's bytes; and it calls conn.Close at most once, only to end itself.
C17_Inv ==
    \A i \in ConnIds :
        /\ IsPrefix(conns[i].delivered, Concat(InboxOf(i)))
        /\ (conns[i].pc \in {"HandleReader", "Notify", "Write"} =>
                conns[i].delivered \o conns[i].buf.data
                    = Concat(Take(InboxOf(i), conns[i].fetched)))
        /\ conns[i].closeCalls <= 1
        /\ (conns[i].closeCalls = 1 =>
                conns[i].pc = "Closed" /\ ~IsCloseError(conns[i].err))

\* A step changes the state of one connection at most.
C17_Step ==
    \E i \in ConnIds : \A j \in ConnIds \ {i} : conns'[j] = conns[j]

\* C17: under every interleaving of the connections' steps, a step changes
\* the pending buffer, the lifecycle state and the hook and close counts of
\* one connection only, and each connection is given the bytes of its own
\* peer, in order, whatever happens to the others.
C17_ConnectionsAreIndependent == []C17_Inv /\ [][C17_Step]_vars

\* Connection 1 ended with an internal-error close while connection 2,
\* one cycle done, has been given the first byte of its message and keeps
\* the second pending.
C17_Witness ==
    /\ conns[1].pc = "Closed"
    /\ conns[1].closeCalls = 1
    /\ conns[2].pc = "HandleReader"
    /\ conns[2].hookCalls = 1
    /\ conns[2].closeCalls = 0
    /\ conns[2].delivered = <<21>>
    /\ conns[2].buf = SomeBuf(<<22>>)

====
